---- MODULE Spec2Model ----
(***************************************************************************)
(* Model of the authentication core of tsumi: sign_up, sign_in, sign_out   *)
(* and refresh as request handlers over the users and refresh_tokens       *)
(* tables.  Every handler is a sequence of steps; a step is the local      *)
(* computation up to and including one database statement, so that the     *)
(* statements of concurrent requests interleave as SQLite serialises them. *)
(* Time is the wall clock in whole seconds (the resolution of the JWT      *)
(* claims iat and exp).                                                    *)
(***************************************************************************)
EXTENDS Integers, Sequences, FiniteSets, TLC

(* ---------------------------- bounds ---------------------------------- *)
\* number of requests received in one behaviour
MaxRequests == 2
\* number of times the clock advances in one behaviour
MaxTicks == 2
\* number of requests received in one behaviour of a single worker
MaxSeqRequests == 3

(* ----------------------- program constants ---------------------------- *)
\* chrono::Duration::hours / ::days, in seconds and hours
SecondsPerHour == 3600
HoursPerDay == 24
\* jsonwebtoken Validation::default(): leeway of 60 seconds on exp
Leeway == 60
\* REFRESH_EXPIRES and ACCESS_EXPIRES of the environment (config.rs)
RefreshExpires == 1
AccessExpires == 1

\* Duration::hours(24) of create_jwt (utils.rs)
AuthTokenHours == 24

\* the request slots: requests in flight at the same time
Procs == {"p1", "p2"}

\* the amounts by which the clock advances between two steps
TickSteps == {1, HoursPerDay * SecondsPerHour}

\* Strings that are no signed token: the absent value (None), the empty
\* string of a cleared cookie, and a string that is not a JWT.
Plain(what) == [sig |-> what, user_id |-> 0, iat |-> 0, exp |-> 0]
NoCookie == Plain("<none>")
NoToken == Plain("<none>")
Cleared == Plain("<empty>")
Untouched == Plain("<untouched>")
Garbage == Plain("<garbage>")
NoUser == 0
NoRecord == [id |-> 0, token |-> NoCookie, user_id |-> NoUser,
             expires_at |-> 0, created_at |-> 0]

VARIABLES
    now,             \* chrono::Utc::now(), in seconds
    ticks,           \* number of clock advances so far
    users,           \* table users
    refresh_tokens,  \* table refresh_tokens
    next_uuid,       \* source of uuid::Uuid::new_v4()
    req,             \* per slot: the request in flight or its response
    started,         \* number of requests received so far
    handed,          \* refresh token values delivered to a client so far
    rotated,         \* token values on which a refresh has succeeded
    signed_out       \* token values on which a sign_out has succeeded

vars == <<now, ticks, users, refresh_tokens, next_uuid, req, started,
          handed, rotated, signed_out>>

(* ------------------------- token codec -------------------------------- *)
\* jsonwebtoken::encode with HS256: the signed string is determined by the
\* claims and the secret; two encodings of equal claims under the same
\* secret are the same string.
Encode(secret, user_id, iat, exp) ==
    [sig |-> secret, user_id |-> user_id, iat |-> iat, exp |-> exp]

create_access_token(user_id, t) ==
    Encode("ACCESS_SECRET", user_id, t, t + AccessExpires * SecondsPerHour)

create_refresh_token(user_id, t) ==
    Encode("REFRESH_TOKEN", user_id, t, t + RefreshExpires * SecondsPerHour)

IsJwt(tok) == tok.sig \in {"ACCESS_SECRET", "REFRESH_TOKEN"}

\* jsonwebtoken::decode with Validation::default(): structure, then
\* signature, then exp with leeway.
Decode(secret, tok, t) ==
    IF ~IsJwt(tok) THEN [ok |-> FALSE, err |-> "InvalidToken", user_id |-> NoUser]
    ELSE IF tok.sig # secret
         THEN [ok |-> FALSE, err |-> "InvalidSignature", user_id |-> NoUser]
    ELSE IF tok.exp < t - Leeway
         THEN [ok |-> FALSE, err |-> "ExpiredSignature", user_id |-> NoUser]
    ELSE [ok |-> TRUE, err |-> "", user_id |-> tok.user_id]

\* as decode_refresh_token, with one secret for both kinds of token
decode_refresh_token_OneSecret(tok, t) ==
    Decode(IF IsJwt(tok) THEN tok.sig ELSE "REFRESH_TOKEN", tok, t)

decode_refresh_token(tok, t) == Decode("REFRESH_TOKEN", tok, t)

\* create_jwt (utils.rs): claims {sub, exp, iat, iss} under the access
\* secret; NoJwt stands for no such token
NoJwt == [sig |-> "<none>", sub |-> "", iat |-> 0, exp |-> 0, iss |-> ""]
create_jwt(login, t) ==
    [sig |-> "ACCESS_SECRET", sub |-> login, iat |-> t,
     exp |-> t + AuthTokenHours * SecondsPerHour, iss |-> "tsumi"]

(* --------------------- credential hashing ----------------------------- *)
\* bcrypt::hash and bcrypt::verify as a capability: verify(p, hash(q))
\* holds exactly when p = q.
hash(plain) == <<"bcrypt", plain>>
verify(plain, hashed) == hashed = hash(plain)

(* ----------------------------- inputs --------------------------------- *)
\* request payloads; every one of them passes payload.validate()
SignUpPayloads ==
    { [name |-> "carol", email |-> "c@x.com", password |-> "longenough1"],
      [name |-> "dave",  email |-> "c@x.com", password |-> "longenough1"],
      [name |-> "carol", email |-> "a@x.com", password |-> "longenough1"],
      [name |-> "alice", email |-> "d@x.com", password |-> "longenough1"] }

SignInPayloads ==
    { [email |-> "a@x.com", password |-> "longenough1"],
      [email |-> "a@x.com", password |-> "wrongpass99"],
      [email |-> "b@x.com", password |-> "longenough1"],
      [email |-> "c@x.com", password |-> "longenough1"],
      [email |-> "z@x.com", password |-> "longenough1"] }

\* the callback of GitHub: the login GitHub reports for the code, and how the
\* calls of handle_github_oauth end
GithubLogins == {"octocat"}
GithubOutcomes == {"Ok", "NetworkError", "InvalidResponse", "JwtCreationError"}

\* the rows of users before the first request: two principals whose email
\* has been verified (no handler sets email_verified; the rows sign_up
\* creates are unverified)
InitialUsers ==
    { [id |-> 1, name |-> "alice", email |-> "a@x.com",
       password |-> hash("longenough1"), email_verified |-> TRUE,
       created_at |-> 0],
      [id |-> 2, name |-> "bob", email |-> "b@x.com",
       password |-> hash("longenough1"), email_verified |-> TRUE,
       created_at |-> 0] }

(* ------------------------ response cookies ---------------------------- *)
\* the jar of tower_cookies for one response: per cookie name either
\* untouched, or the value last added ("" with max-age 0 clears it)
EmptyJar ==
    [access_token |-> Untouched, refresh_token |-> Untouched, auth_token |-> NoJwt]

\* as set_auth_cookies, with the two values under each other's name
set_auth_cookies_Swapped(jar, access, refresh) ==
    [jar EXCEPT !.access_token = refresh, !.refresh_token = access]

\* set_auth_cookies (signin.rs): remove both, then add both
set_auth_cookies(jar, access, refresh) ==
    [jar EXCEPT !.access_token = access, !.refresh_token = refresh]

\* set_refresh_token_cookie (refresh.rs): add the removal cookie, then add
\* the new value under the same name, which replaces it
set_refresh_token_cookie(jar, refresh) ==
    [[jar EXCEPT !.refresh_token = Cleared] EXCEPT !.refresh_token = refresh]

\* remove_refresh_token_cookie (signout.rs)
remove_refresh_token_cookie(jar) == [jar EXCEPT !.refresh_token = Cleared]

(* ------------------------- request slots ------------------------------ *)
\* A slot holds the locals of the handler (user_id, token_record,
\* token_exists, new_access, new_refresh), the response (status, message,
\* body, jar) and a record of what the request did to the tables: the rows
\* it inserted (ins, new_users) and removed (del), the count returned by the
\* delete of the old record in refresh (rotate_count, -1 before it ran), and
\* whether the presented value had been rotated before it arrived (reuse) or
\* had been signed out before it arrived (after_sign_out). For the OAuth
\* callback, name is the login and message the location of the redirect.
\* delete_failed tells that a DELETE of the request returned Err.
\* conn tells that the local `conn` of the handler holds a connection of
\* the pool. oauth_error is the GithubOAuthError handle_github_oauth
\* returned to the callback, "None" when it returned Ok.
Idle ==
    [kind |-> "none", pc |-> "idle", name |-> "", email |-> "", password |-> "",
     cookie |-> NoCookie, user_id |-> NoUser, token_record |-> NoRecord,
     new_access |-> NoToken, new_refresh |-> NoToken,
     status |-> "pending", message |-> "", body_access |-> NoToken,
     body_user |-> NoUser, jar |-> EmptyJar,
     token_exists |-> FALSE, rotate_count |-> -1,
     ins |-> {}, del |-> {}, new_users |-> {}, reuse |-> FALSE,
     after_sign_out |-> FALSE, delete_failed |-> FALSE, conn |-> FALSE,
     oauth_error |-> "None"]

\* utils::get_db_conn: a connection taken from state.db_pool, held by the
\* local `conn` of the handler
get_db_conn == TRUE

\* a slot that serves no request: the server runs with one worker
Closed == [Idle EXCEPT !.pc = "closed"]

\* the requests of one behaviour: MaxRequests with two workers, whose
\* requests overlap, MaxSeqRequests with one worker
Limit ==
    IF \E o \in Procs : req[o].pc = "closed" THEN MaxSeqRequests ELSE MaxRequests

Free(r) == req[r].pc \in {"idle", "done"} /\ started < Limit

\* as Fail, with the connection of the request kept out of the pool
Fail_KeepsConnection(q, status, message) ==
    [q EXCEPT !.pc = "done", !.status = status, !.message = message]

\* AuthError returned to the caller; `conn` goes out of scope and its Drop
\* gives the connection back to the pool
Fail(q, status, message) ==
    [q EXCEPT !.pc = "done", !.conn = FALSE, !.status = status, !.message = message]

\* the pair that the sign_in of alice at second 0 has delivered
InitialToken == create_refresh_token(1, 0)
InitialAccess == create_access_token(1, 0)

\* the refresh cookie a client may present: none, or a value some response
\* has delivered
CookieChoices == {NoCookie} \cup handed

\* what a client may present to refresh: as above, or a string that is no
\* JWT, or the access token of its session in place of the refresh token.
\* sign_in and sign_out use the cookie as a key of the table only, so for
\* them such a value is one more value without a record.
RefreshCookieChoices == CookieChoices \cup {Garbage, InitialAccess}

\* AuthError::status_code, ::error_code and the Display of the variant
status_code(kind) ==
    CASE kind = "Unauthorized" -> 401
      [] kind = "Conflict" -> 409
      [] kind = "DatabaseError" -> 500
      [] kind = "SeeOther" -> 303
      [] OTHER -> 200

error_code(kind) ==
    CASE kind = "Unauthorized" -> "UNAUTHORIZED"
      [] kind = "Conflict" -> "CONFLICT"
      [] kind = "DatabaseError" -> "DATABASE_ERROR"
      [] OTHER -> ""

to_string(kind, message) ==
    CASE kind = "Unauthorized" -> <<"Unauthorized: ", message>>
      [] kind = "Conflict" -> <<"Resource conflict: ", message>>
      [] kind = "DatabaseError" -> <<"Database operation failed: ", message>>
      [] OTHER -> <<"", message>>

\* into_response: what the caller sees of the outcome of a request, the
\* timestamp aside
into_response(q) ==
    [status |-> status_code(q.status), code |-> error_code(q.status),
     message |-> to_string(q.status, q.message)]

(* ------------------------- store queries ------------------------------ *)
\* RefreshTokens::by_token / first(): a row with this token value, if any
RowsByToken(tok) == {x \in refresh_tokens : x.token = tok}
by_token(tok) ==
    IF RowsByToken(tok) = {} THEN NoRecord
    ELSE CHOOSE x \in RowsByToken(tok) :
           \A y \in RowsByToken(tok) : x.id <= y.id

token_exists(tok) == RowsByToken(tok) # {}

\* as delete_by_token, reporting one row whether or not one was removed
delete_by_token_AlwaysOne(rows, tok) ==
    [rows |-> {x \in rows : x.token # tok}, count |-> 1]

\* RefreshTokens::delete_by_token: the rows of the table after DELETE ...
\* WHERE token = tok, and the number of rows the statement removed
delete_by_token(rows, tok) ==
    [rows |-> {x \in rows : x.token # tok},
     count |-> Cardinality({x \in rows : x.token = tok})]

\* RefreshTokens::is_expired: a row with this token and expires_at < now
is_expired(tok, t) == \E x \in RowsByToken(tok) : x.expires_at < t

\* the UNIQUE constraint of refresh_tokens.token
TokenUniqueViolation(tok) == \E x \in refresh_tokens : x.token = tok

\* the UNIQUE constraint of users.email
UserUniqueViolation(email) == \E u \in users : u.email = email

NewRefreshToken(id, tok, user_id, t) ==
    [id |-> id, token |-> tok, user_id |-> user_id,
     expires_at |-> t + RefreshExpires * HoursPerDay * SecondsPerHour,
     created_at |-> t]

\* users::table.filter(email.eq(..)).first(): the oldest matching row
UsersByEmail(email) == {u \in users : u.email = email}
UsersByName(name) == {u \in users : u.name = name}
FirstUser(rows) == CHOOSE u \in rows : \A v \in rows : u.id <= v.id

(* ------------------------------ Init ---------------------------------- *)
\* The first state is the instant at which a sign_in of alice, received
\* without a cookie, has returned: her session is the one stored record and
\* its token value is with her client.
InitialSession == NewRefreshToken(3, InitialToken, 1, 0)

Init ==
    /\ now = 0
    /\ ticks = 0
    /\ users = InitialUsers
    /\ refresh_tokens = {InitialSession}
    /\ next_uuid = 4
    /\ req = [r \in Procs |-> Idle]
    /\ started = 0
    /\ handed = {InitialToken}
    /\ rotated = {}
    /\ signed_out = {}

\* as Init, with one worker: the requests are served one after the other
InitSeq ==
    /\ now = 0
    /\ ticks = 0
    /\ users = InitialUsers
    /\ refresh_tokens = {InitialSession}
    /\ next_uuid = 4
    /\ req = [r \in Procs |-> IF r = "p1" THEN Idle ELSE Closed]
    /\ started = 0
    /\ handed = {InitialToken}
    /\ rotated = {}
    /\ signed_out = {}

\* as InitSeq, with one more row in the table that no handler has written:
\* a refresh token signed for bob, stored as a session of alice and known to
\* a client. The schema admits the row; the handlers never insert one.
ForeignToken == create_refresh_token(2, 0)
ForeignSession == NewRefreshToken(4, ForeignToken, 1, 0)

InitForeign ==
    /\ now = 0
    /\ ticks = 0
    /\ users = InitialUsers
    /\ refresh_tokens = {InitialSession, ForeignSession}
    /\ next_uuid = 5
    /\ req = [r \in Procs |-> IF r = "p1" THEN Idle ELSE Closed]
    /\ started = 0
    /\ handed = {InitialToken, ForeignToken}
    /\ rotated = {}
    /\ signed_out = {}

\* the wall clock advances between two steps of the handlers: by a second,
\* or, once in a behaviour, by the day after which the tokens and records
\* issued before it have expired
Tick ==
    /\ ticks < MaxTicks
    /\ \E d \in TickSteps :
         /\ d = 1 \/ now < d
         /\ now' = now + d
    /\ ticks' = ticks + 1
    /\ UNCHANGED <<users, refresh_tokens, next_uuid, req, started, handed, rotated, signed_out>>

(* ----------------------------- sign_up -------------------------------- *)
\* the request arrives and payload.validate() passes
StartSignUp(r) ==
    /\ Free(r)
    /\ \E p \in SignUpPayloads :
         req' = [req EXCEPT ![r] = [Idle EXCEPT !.kind = "sign_up", !.pc = "su_email",
                    !.conn = TRUE,
                    !.name = p.name, !.email = p.email, !.password = p.password]]
    /\ started' = started + 1
    /\ UNCHANGED <<now, ticks, users, refresh_tokens, next_uuid, handed, rotated, signed_out>>

SignUpCheckEmail(r) ==
    /\ req[r].pc = "su_email"
    /\ req' = [req EXCEPT ![r] =
                 IF UsersByEmail(@.email) # {}
                 THEN Fail(@, "Conflict", "Email address is already registered")
                 ELSE [@ EXCEPT !.pc = "su_name"]]
    /\ UNCHANGED <<now, ticks, users, refresh_tokens, next_uuid, started, handed, rotated, signed_out>>

\* as SignUpCheckName, with the result of the query not looked at
SignUpCheckName_Skipped(r) ==
    /\ req[r].pc = "su_name"
    /\ req' = [req EXCEPT ![r] = [@ EXCEPT !.pc = "su_insert"]]
    /\ UNCHANGED <<now, ticks, users, refresh_tokens, next_uuid, started, handed, rotated, signed_out>>

SignUpCheckName(r) ==
    /\ req[r].pc = "su_name"
    /\ req' = [req EXCEPT ![r] =
                 IF UsersByName(@.name) # {}
                 THEN Fail(@, "Conflict", "Username is already taken")
                 ELSE [@ EXCEPT !.pc = "su_insert"]]
    /\ UNCHANGED <<now, ticks, users, refresh_tokens, next_uuid, started, handed, rotated, signed_out>>

\* as NewUser, with the row created as verified
NewUser_Verified(id, q, t) ==
    [id |-> id, name |-> q.name, email |-> q.email, password |-> hash(q.password),
     email_verified |-> TRUE, created_at |-> t]

NewUser(id, q, t) ==
    [id |-> id, name |-> q.name, email |-> q.email, password |-> hash(q.password),
     email_verified |-> FALSE, created_at |-> t]

\* as SignUpInsert, with the error of the insert dropped
SignUpInsert_SwallowError(r) ==
    /\ req[r].pc = "su_insert"
    /\ LET q == req[r]
           new_user == NewUser(next_uuid, q, now)
       IN /\ users' = IF UserUniqueViolation(q.email) THEN users
                      ELSE users \cup {new_user}
          /\ req' = [req EXCEPT ![r] = [q EXCEPT !.pc = "done", !.conn = FALSE, !.status = "OK",
                        !.body_user = new_user.id, !.new_users = {new_user}]]
    /\ next_uuid' = next_uuid + 1
    /\ UNCHANGED <<now, ticks, refresh_tokens, started, handed, rotated, signed_out>>

\* hash the password, draw the id, insert the row; a violated constraint is
\* reported as Conflict
SignUpInsert(r) ==
    /\ req[r].pc = "su_insert"
    /\ LET q == req[r]
           new_user == NewUser(next_uuid, q, now)
       IN IF UserUniqueViolation(q.email)
          THEN /\ req' = [req EXCEPT ![r] =
                            Fail(q, "Conflict", "Email or username already exists")]
               /\ users' = users
          ELSE /\ users' = users \cup {new_user}
               /\ req' = [req EXCEPT ![r] = [q EXCEPT !.pc = "done", !.conn = FALSE, !.status = "OK",
                             !.body_user = new_user.id, !.new_users = {new_user}]]
    /\ next_uuid' = next_uuid + 1
    /\ UNCHANGED <<now, ticks, refresh_tokens, started, handed, rotated, signed_out>>

(* ----------------------------- sign_in -------------------------------- *)
StartSignIn(r) ==
    /\ Free(r)
    /\ \E p \in SignInPayloads, c \in CookieChoices :
         req' = [req EXCEPT ![r] = [Idle EXCEPT !.kind = "sign_in", !.pc = "si_user",
                    !.conn = TRUE,
                    !.email = p.email, !.password = p.password, !.cookie = c]]
    /\ started' = started + 1
    /\ UNCHANGED <<now, ticks, users, refresh_tokens, next_uuid, handed, rotated, signed_out>>

\* as SignInFindUser, with a message of its own for an unknown email
SignInFindUser_TellsUnknownEmail(r) ==
    /\ req[r].pc = "si_user"
    /\ LET q == req[r]
           rows == UsersByEmail(q.email)
       IN req' = [req EXCEPT ![r] =
            IF rows = {}
            THEN Fail(q, "Unauthorized", "No account with this email")
            ELSE IF ~verify(q.password, FirstUser(rows).password)
            THEN Fail([q EXCEPT !.user_id = FirstUser(rows).id],
                      "Unauthorized", "Invalid email or password")
            ELSE IF ~FirstUser(rows).email_verified
            THEN Fail([q EXCEPT !.user_id = FirstUser(rows).id], "Unauthorized",
                      "Please verify your email address before signing in")
            ELSE [q EXCEPT !.user_id = FirstUser(rows).id,
                           !.pc = IF q.cookie = NoCookie THEN "si_insert"
                                  ELSE "si_cleanup"]]
    /\ UNCHANGED <<now, ticks, users, refresh_tokens, next_uuid, started, handed, rotated, signed_out>>

\* as SignInFindUser, without the check of the password
SignInFindUser_NoPasswordCheck(r) ==
    /\ req[r].pc = "si_user"
    /\ LET q == req[r]
           rows == UsersByEmail(q.email)
       IN req' = [req EXCEPT ![r] =
            IF rows = {}
            THEN Fail(q, "Unauthorized", "Invalid email or password")
            ELSE IF ~FirstUser(rows).email_verified
            THEN Fail([q EXCEPT !.user_id = FirstUser(rows).id], "Unauthorized",
                      "Please verify your email address before signing in")
            ELSE [q EXCEPT !.user_id = FirstUser(rows).id,
                           !.pc = IF q.cookie = NoCookie THEN "si_insert"
                                  ELSE "si_cleanup"]]
    /\ UNCHANGED <<now, ticks, users, refresh_tokens, next_uuid, started, handed, rotated, signed_out>>

\* look the principal up by email, then the credential and the verified gate
SignInFindUser(r) ==
    /\ req[r].pc = "si_user"
    /\ LET q == req[r]
           rows == UsersByEmail(q.email)
       IN req' = [req EXCEPT ![r] =
            IF rows = {}
            THEN Fail(q, "Unauthorized", "Invalid email or password")
            ELSE IF ~verify(q.password, FirstUser(rows).password)
            THEN Fail([q EXCEPT !.user_id = FirstUser(rows).id],
                      "Unauthorized", "Invalid email or password")
            ELSE IF ~FirstUser(rows).email_verified
            THEN Fail([q EXCEPT !.user_id = FirstUser(rows).id], "Unauthorized",
                      "Please verify your email address before signing in")
            ELSE [q EXCEPT !.user_id = FirstUser(rows).id,
                           !.pc = IF q.cookie = NoCookie THEN "si_insert"
                                  ELSE "si_cleanup"]]
    /\ UNCHANGED <<now, ticks, users, refresh_tokens, next_uuid, started, handed, rotated, signed_out>>

\* cleanup_existing_tokens: the query for the presented cookie
SignInCleanupLookup(r) ==
    /\ req[r].pc = "si_cleanup"
    /\ LET q == req[r]
           existing == by_token(q.cookie)
       IN req' = [req EXCEPT ![r] =
            IF existing = NoRecord THEN [q EXCEPT !.pc = "si_insert"]
            ELSE [q EXCEPT !.token_record = existing, !.pc = "si_cleanup_delete"]]
    /\ UNCHANGED <<now, ticks, users, refresh_tokens, next_uuid, started, handed, rotated, signed_out>>

\* as SignInCleanupDelete, with the sessions of the owner of the presented
\* record removed on a mismatch
SignInCleanupDelete_OwnerOfCookie(r) ==
    /\ req[r].pc = "si_cleanup_delete"
    /\ LET q == req[r]
           gone == IF q.token_record.user_id # q.user_id
                   THEN {x \in refresh_tokens : x.user_id = q.token_record.user_id}
                   ELSE RowsByToken(q.cookie)
       IN /\ refresh_tokens' = refresh_tokens \ gone
          /\ req' = [req EXCEPT ![r] = [q EXCEPT !.pc = "si_insert",
                        !.del = @ \cup gone]]
    /\ UNCHANGED <<now, ticks, users, next_uuid, started, handed, rotated, signed_out>>

\* as SignInCleanupDelete, with the delete by value on a mismatch too
SignInCleanupDelete_ByValue(r) ==
    /\ req[r].pc = "si_cleanup_delete"
    /\ LET q == req[r]
           gone == RowsByToken(q.cookie)
       IN /\ refresh_tokens' = refresh_tokens \ gone
          /\ req' = [req EXCEPT ![r] = [q EXCEPT !.pc = "si_insert",
                        !.del = @ \cup gone]]
    /\ UNCHANGED <<now, ticks, users, next_uuid, started, handed, rotated, signed_out>>

\* cleanup_existing_tokens: the delete, by owner on a mismatch, else by value
SignInCleanupDelete(r) ==
    /\ req[r].pc = "si_cleanup_delete"
    /\ LET q == req[r]
           gone == IF q.token_record.user_id # q.user_id
                   THEN {x \in refresh_tokens : x.user_id = q.user_id}
                   ELSE RowsByToken(q.cookie)
       IN /\ refresh_tokens' = refresh_tokens \ gone
          /\ req' = [req EXCEPT ![r] = [q EXCEPT !.pc = "si_insert",
                        !.del = @ \cup gone]]
    /\ UNCHANGED <<now, ticks, users, next_uuid, started, handed, rotated, signed_out>>

\* as SignInInsert, with the refresh token minted for the subject of the
\* presented cookie when there is one
SignInInsert_SubjectOfCookie(r) ==
    /\ req[r].pc = "si_insert"
    /\ LET subject == IF IsJwt(req[r].cookie) THEN req[r].cookie.user_id
                      ELSE req[r].user_id
           q == [req[r] EXCEPT
                   !.new_access = create_access_token(req[r].user_id, now),
                   !.new_refresh = create_refresh_token(subject, now)]
           rec == NewRefreshToken(next_uuid, q.new_refresh, q.user_id, now)
       IN IF TokenUniqueViolation(q.new_refresh)
          THEN /\ req' = [req EXCEPT ![r] =
                            Fail(q, "DatabaseError", "Failed to create user session")]
               /\ UNCHANGED <<refresh_tokens, handed>>
          ELSE /\ refresh_tokens' = refresh_tokens \cup {rec}
               /\ handed' = handed \cup {q.new_refresh}
               /\ req' = [req EXCEPT ![r] = [q EXCEPT !.pc = "done", !.conn = FALSE, !.status = "OK",
                             !.message = "Successfully signed in",
                             !.body_user = q.user_id, !.ins = @ \cup {rec},
                             !.jar = set_auth_cookies(@, q.new_access, q.new_refresh)]]
    /\ next_uuid' = next_uuid + 1
    /\ UNCHANGED <<now, ticks, users, started, rotated, signed_out>>

\* as SignInInsert, with the insert going through whatever the table holds
SignInInsert_Unchecked(r) ==
    /\ req[r].pc = "si_insert"
    /\ LET q == [req[r] EXCEPT
                   !.new_access = create_access_token(req[r].user_id, now),
                   !.new_refresh = create_refresh_token(req[r].user_id, now)]
           rec == NewRefreshToken(next_uuid, q.new_refresh, q.user_id, now)
       IN /\ refresh_tokens' = refresh_tokens \cup {rec}
          /\ handed' = handed \cup {q.new_refresh}
          /\ req' = [req EXCEPT ![r] = [q EXCEPT !.pc = "done", !.conn = FALSE, !.status = "OK",
                        !.message = "Successfully signed in",
                        !.body_user = q.user_id, !.ins = @ \cup {rec},
                        !.jar = set_auth_cookies(@, q.new_access, q.new_refresh)]]
    /\ next_uuid' = next_uuid + 1
    /\ UNCHANGED <<now, ticks, users, started, rotated, signed_out>>

\* the two tokens are minted and the record is inserted; the clock is read
\* within one second by create_refresh_token and for the record
SignInInsert(r) ==
    /\ req[r].pc = "si_insert"
    /\ LET q == [req[r] EXCEPT
                   !.new_access = create_access_token(req[r].user_id, now),
                   !.new_refresh = create_refresh_token(req[r].user_id, now)]
           rec == NewRefreshToken(next_uuid, q.new_refresh, q.user_id, now)
       IN IF TokenUniqueViolation(q.new_refresh)
          THEN /\ req' = [req EXCEPT ![r] =
                            Fail(q, "DatabaseError", "Failed to create user session")]
               /\ UNCHANGED <<refresh_tokens, handed>>
          ELSE /\ refresh_tokens' = refresh_tokens \cup {rec}
               /\ handed' = handed \cup {q.new_refresh}
               /\ req' = [req EXCEPT ![r] = [q EXCEPT !.pc = "done", !.conn = FALSE, !.status = "OK",
                             !.message = "Successfully signed in",
                             !.body_user = q.user_id, !.ins = @ \cup {rec},
                             !.jar = set_auth_cookies(@, q.new_access, q.new_refresh)]]
    /\ next_uuid' = next_uuid + 1
    /\ UNCHANGED <<now, ticks, users, started, rotated, signed_out>>

(* ---------------------------- sign_out -------------------------------- *)
StartSignOut(r) ==
    /\ Free(r)
    /\ \E c \in CookieChoices :
         req' = [req EXCEPT ![r] =
            IF c = NoCookie
            THEN Fail([Idle EXCEPT !.kind = "sign_out"], "Unauthorized",
                      "No active session found")
            ELSE [Idle EXCEPT !.kind = "sign_out", !.pc = "so_exists", !.cookie = c,
                              !.conn = get_db_conn,
                              !.after_sign_out = c \in signed_out]]
    /\ started' = started + 1
    /\ UNCHANGED <<now, ticks, users, refresh_tokens, next_uuid, handed, rotated, signed_out>>

\* as SignOutExists, with the cookie left alone when the record is absent
SignOutExists_KeepCookie(r) ==
    /\ req[r].pc = "so_exists"
    /\ req' = [req EXCEPT ![r] =
                 IF ~token_exists(@.cookie)
                 THEN Fail(@, "Unauthorized", "Invalid or expired session")
                 ELSE [@ EXCEPT !.token_exists = TRUE, !.pc = "so_delete"]]
    /\ UNCHANGED <<now, ticks, users, refresh_tokens, next_uuid, started, handed, rotated, signed_out>>

\* RefreshTokens::token_exists; an absent record clears the cookie and fails
SignOutExists(r) ==
    /\ req[r].pc = "so_exists"
    /\ req' = [req EXCEPT ![r] =
                 IF ~token_exists(@.cookie)
                 THEN Fail([@ EXCEPT !.jar = remove_refresh_token_cookie(@)],
                           "Unauthorized", "Invalid or expired session")
                 ELSE [@ EXCEPT !.token_exists = TRUE, !.pc = "so_delete"]]
    /\ UNCHANGED <<now, ticks, users, refresh_tokens, next_uuid, started, handed, rotated, signed_out>>

\* as SignOutDelete, with every session of the owner of the record removed
SignOutDelete_ByOwner(r) ==
    /\ req[r].pc = "so_delete"
    /\ LET q == req[r]
           gone == {x \in refresh_tokens :
                      \E y \in RowsByToken(q.cookie) : x.user_id = y.user_id}
       IN \/ /\ refresh_tokens' = refresh_tokens \ gone
             /\ signed_out' = signed_out \cup {q.cookie}
             /\ req' = [req EXCEPT ![r] = [q EXCEPT !.pc = "done", !.conn = FALSE,
                           !.status = "OK",
                           !.message = "Successfully signed out",
                           !.del = @ \cup gone,
                           !.jar = remove_refresh_token_cookie(@)]]
          \/ /\ req' = [req EXCEPT ![r] =
                           Fail([q EXCEPT !.delete_failed = TRUE],
                                "DatabaseError", "Failed to invalidate session")]
             /\ UNCHANGED <<refresh_tokens, signed_out>>
    /\ UNCHANGED <<now, ticks, users, next_uuid, started, handed, rotated>>

\* as SignOutDelete, with every session of the table removed
SignOutDelete_WipesTable(r) ==
    /\ req[r].pc = "so_delete"
    /\ LET q == req[r]
       IN \/ /\ refresh_tokens' = {}
             /\ signed_out' = signed_out \cup {q.cookie}
             /\ req' = [req EXCEPT ![r] = [q EXCEPT !.pc = "done", !.conn = FALSE, !.status = "OK",
                           !.message = "Successfully signed out",
                           !.del = @ \cup refresh_tokens,
                           !.jar = remove_refresh_token_cookie(@)]]
          \/ /\ req' = [req EXCEPT ![r] =
                           Fail([q EXCEPT !.delete_failed = TRUE],
                                "DatabaseError", "Failed to invalidate session")]
             /\ UNCHANGED <<refresh_tokens, signed_out>>
    /\ UNCHANGED <<now, ticks, users, next_uuid, started, handed, rotated>>

\* delete_by_token, then the cookie is removed; an Err of the statement
\* returns through `?` before the cookie is touched
SignOutDelete(r) ==
    /\ req[r].pc = "so_delete"
    /\ LET q == req[r]
           d == delete_by_token(refresh_tokens, q.cookie)
           gone == refresh_tokens \ d.rows
       IN \/ /\ refresh_tokens' = d.rows
             /\ signed_out' = signed_out \cup {q.cookie}
             /\ req' = [req EXCEPT ![r] = [q EXCEPT !.pc = "done", !.conn = FALSE, !.status = "OK",
                           !.message = "Successfully signed out",
                           !.del = @ \cup gone,
                           !.jar = remove_refresh_token_cookie(@)]]
          \/ /\ req' = [req EXCEPT ![r] =
                           Fail([q EXCEPT !.delete_failed = TRUE],
                                "DatabaseError", "Failed to invalidate session")]
             /\ UNCHANGED <<refresh_tokens, signed_out>>
    /\ UNCHANGED <<now, ticks, users, next_uuid, started, handed, rotated>>

(* ----------------------------- refresh -------------------------------- *)
\* as StartRefresh, with the claims read without the verification
StartRefresh_NoVerify(r) ==
    /\ Free(r)
    /\ \E c \in RefreshCookieChoices :
         LET q == [Idle EXCEPT !.kind = "refresh", !.cookie = c,
                               !.reuse = c \in rotated,
                               !.after_sign_out = c \in signed_out]
         IN req' = [req EXCEPT ![r] =
              IF c = NoCookie
              THEN Fail(q, "Unauthorized", "No refresh token provided")
              ELSE [q EXCEPT !.user_id = c.user_id, !.pc = "rf_lookup",
                             !.conn = get_db_conn]]
    /\ started' = started + 1
    /\ UNCHANGED <<now, ticks, users, refresh_tokens, next_uuid, handed, rotated, signed_out>>

\* the request arrives: the cookie is read and decoded before any statement
StartRefresh(r) ==
    /\ Free(r)
    /\ \E c \in RefreshCookieChoices :
         LET d == decode_refresh_token(c, now)
             q == [Idle EXCEPT !.kind = "refresh", !.cookie = c,
                               !.reuse = c \in rotated,
                               !.after_sign_out = c \in signed_out]
         IN req' = [req EXCEPT ![r] =
              IF c = NoCookie
              THEN Fail(q, "Unauthorized", "No refresh token provided")
              ELSE IF ~d.ok
              THEN Fail(q, "Unauthorized", "Invalid or malformed refresh token")
              ELSE [q EXCEPT !.user_id = d.user_id, !.pc = "rf_lookup",
                             !.conn = get_db_conn]]
    /\ started' = started + 1
    /\ UNCHANGED <<now, ticks, users, refresh_tokens, next_uuid, handed, rotated, signed_out>>

\* as RefreshByToken, with a missing record let through to the rotation
RefreshByToken_MissingLetThrough(r) ==
    /\ req[r].pc = "rf_lookup"
    /\ LET q == req[r]
           token_record == by_token(q.cookie)
       IN req' = [req EXCEPT ![r] =
            IF token_record = NoRecord
            THEN [q EXCEPT !.pc = "rf_delete"]
            ELSE [q EXCEPT !.token_record = token_record,
                           !.pc = IF token_record.user_id # q.user_id
                                  THEN "rf_mismatch" ELSE "rf_expired"]]
    /\ UNCHANGED <<now, ticks, users, refresh_tokens, next_uuid, started, handed, rotated, signed_out>>

\* as RefreshByToken, without the comparison of the owner
RefreshByToken_NoOwnerCheck(r) ==
    /\ req[r].pc = "rf_lookup"
    /\ LET q == req[r]
           token_record == by_token(q.cookie)
       IN req' = [req EXCEPT ![r] =
            IF token_record = NoRecord
            THEN Fail(q, "Unauthorized", "Invalid refresh token")
            ELSE [q EXCEPT !.token_record = token_record, !.pc = "rf_expired"]]
    /\ UNCHANGED <<now, ticks, users, refresh_tokens, next_uuid, started, handed, rotated, signed_out>>

\* RefreshTokens::by_token and the owner check
RefreshByToken(r) ==
    /\ req[r].pc = "rf_lookup"
    /\ LET q == req[r]
           token_record == by_token(q.cookie)
       IN req' = [req EXCEPT ![r] =
            IF token_record = NoRecord
            THEN Fail(q, "Unauthorized", "Invalid refresh token")
            ELSE [q EXCEPT !.token_record = token_record,
                           !.pc = IF token_record.user_id # q.user_id
                                  THEN "rf_mismatch" ELSE "rf_expired"]]
    /\ UNCHANGED <<now, ticks, users, refresh_tokens, next_uuid, started, handed, rotated, signed_out>>

\* as RefreshIsExpired, with the answer of the query not looked at
RefreshIsExpired_Never(r) ==
    /\ req[r].pc = "rf_expired"
    /\ req' = [req EXCEPT ![r] = [@ EXCEPT !.pc = "rf_delete"]]
    /\ UNCHANGED <<now, ticks, users, refresh_tokens, next_uuid, started, handed, rotated, signed_out>>

\* RefreshTokens::is_expired on the record found
RefreshIsExpired(r) ==
    /\ req[r].pc = "rf_expired"
    /\ req' = [req EXCEPT ![r] = [@ EXCEPT !.pc =
                  IF is_expired(req[r].token_record.token, now)
                  THEN "rf_expired_delete" ELSE "rf_delete"]]
    /\ UNCHANGED <<now, ticks, users, refresh_tokens, next_uuid, started, handed, rotated, signed_out>>

\* as RefreshDefensiveDelete with `?` on the delete: an Err of the delete
\* becomes the response
RefreshDefensiveDelete_Propagates(r) ==
    /\ req[r].pc \in {"rf_mismatch", "rf_expired_delete"}
    /\ LET q == req[r]
           d == delete_by_token(refresh_tokens, q.cookie)
           message == IF q.pc = "rf_mismatch" THEN "Token validation failed"
                      ELSE "Refresh token has expired"
       IN \/ /\ refresh_tokens' = d.rows
             /\ req' = [req EXCEPT ![r] =
                  Fail([q EXCEPT !.del = @ \cup (refresh_tokens \ d.rows)],
                       "Unauthorized", message)]
          \/ /\ refresh_tokens' = refresh_tokens
             /\ req' = [req EXCEPT ![r] =
                  Fail([q EXCEPT !.delete_failed = TRUE], "DatabaseError",
                       "Failed to delete refresh token")]
    /\ UNCHANGED <<now, ticks, users, next_uuid, started, handed, rotated, signed_out>>

\* the clean-up delete on an owner mismatch or an expired record, then the
\* error return; `let _ =` drops the result of the delete, Ok or Err
RefreshDefensiveDelete(r) ==
    /\ req[r].pc \in {"rf_mismatch", "rf_expired_delete"}
    /\ LET q == req[r]
           d == delete_by_token(refresh_tokens, q.cookie)
           message == IF q.pc = "rf_mismatch" THEN "Token validation failed"
                      ELSE "Refresh token has expired"
       IN \/ /\ refresh_tokens' = d.rows
             /\ req' = [req EXCEPT ![r] =
                  Fail([q EXCEPT !.del = @ \cup (refresh_tokens \ d.rows)],
                       "Unauthorized", message)]
          \/ /\ refresh_tokens' = refresh_tokens
             /\ req' = [req EXCEPT ![r] =
                  Fail([q EXCEPT !.delete_failed = TRUE], "Unauthorized", message)]
    /\ UNCHANGED <<now, ticks, users, next_uuid, started, handed, rotated, signed_out>>

\* as RefreshDelete, with every session of the subject removed
RefreshDelete_ByOwner(r) ==
    /\ req[r].pc = "rf_delete"
    /\ LET q == req[r]
           rows == {x \in refresh_tokens : x.user_id # q.user_id}
       IN /\ refresh_tokens' = rows
          /\ req' = [req EXCEPT ![r] = [q EXCEPT !.pc = "rf_create",
                        !.del = @ \cup (refresh_tokens \ rows),
                        !.rotate_count = Cardinality(refresh_tokens \ rows)]]
    /\ UNCHANGED <<now, ticks, users, next_uuid, started, handed, rotated, signed_out>>

\* delete_by_token of the old record: Ok(count) whatever the count
RefreshDelete(r) ==
    /\ req[r].pc = "rf_delete"
    /\ LET q == req[r]
           d == delete_by_token(refresh_tokens, q.cookie)
       IN /\ refresh_tokens' = d.rows
          /\ req' = [req EXCEPT ![r] = [q EXCEPT !.pc = "rf_create",
                        !.del = @ \cup (refresh_tokens \ d.rows),
                        !.rotate_count = d.count]]
    /\ UNCHANGED <<now, ticks, users, next_uuid, started, handed, rotated, signed_out>>

\* the new pair is minted, RefreshTokens::create stores the record, then the
\* cookie and the response; the clock is read within one second
RefreshCreate(r) ==
    /\ req[r].pc = "rf_create"
    /\ LET q == [req[r] EXCEPT
                   !.new_access = create_access_token(req[r].user_id, now),
                   !.new_refresh = create_refresh_token(req[r].user_id, now)]
           rec == NewRefreshToken(next_uuid, q.new_refresh, q.user_id, now)
       IN IF TokenUniqueViolation(q.new_refresh)
          THEN /\ req' = [req EXCEPT ![r] =
                            Fail(q, "DatabaseError", "Failed to store new refresh token")]
               /\ UNCHANGED <<refresh_tokens, handed, rotated>>
          ELSE /\ refresh_tokens' = refresh_tokens \cup {rec}
               /\ handed' = handed \cup {q.new_refresh}
               /\ rotated' = rotated \cup {q.cookie}
               /\ req' = [req EXCEPT ![r] = [q EXCEPT !.pc = "done", !.conn = FALSE, !.status = "OK",
                             !.message = "Tokens refreshed successfully",
                             !.body_access = q.new_access, !.ins = @ \cup {rec},
                             !.jar = set_refresh_token_cookie(@, q.new_refresh)]]
    /\ next_uuid' = next_uuid + 1
    /\ UNCHANGED <<now, ticks, users, started, signed_out>>

(* ------------------------- OAuth callback ----------------------------- *)
\* as GithubCallback, with the redirect naming the error that occurred
GithubCallback_TellsTheError(r) ==
    /\ Free(r)
    /\ \E login \in GithubLogins, outcome \in GithubOutcomes :
         LET q == [Idle EXCEPT !.kind = "github", !.pc = "done", !.name = login,
                               !.status = "SeeOther"]
         IN req' = [req EXCEPT ![r] =
              IF outcome = "Ok"
              THEN [q EXCEPT !.message = "/",
                             !.jar = [@ EXCEPT !.auth_token = create_jwt(login, now)]]
              ELSE [q EXCEPT !.message = outcome, !.oauth_error = outcome]]
    /\ started' = started + 1
    /\ UNCHANGED <<now, ticks, users, refresh_tokens, next_uuid, handed, rotated, signed_out>>

\* github_oauth_callback: the code is exchanged, the user fetched, the token
\* minted and set as cookie auth_token; any error becomes the redirect to
\* the login page. The handler runs no statement on the store.
GithubCallback(r) ==
    /\ Free(r)
    /\ \E login \in GithubLogins, outcome \in GithubOutcomes :
         LET q == [Idle EXCEPT !.kind = "github", !.pc = "done", !.name = login,
                               !.status = "SeeOther"]
         IN req' = [req EXCEPT ![r] =
              IF outcome = "Ok"
              THEN [q EXCEPT !.message = "/",
                             !.jar = [@ EXCEPT !.auth_token = create_jwt(login, now)]]
              ELSE [q EXCEPT !.message = "/login?error=oauth_failed",
                             !.oauth_error = outcome]]
    /\ started' = started + 1
    /\ UNCHANGED <<now, ticks, users, refresh_tokens, next_uuid, handed, rotated, signed_out>>

(* ------------------------------ Next ---------------------------------- *)
Next ==
    \/ Tick
    \/ \E r \in Procs :
         \/ StartSignUp(r) \/ SignUpCheckEmail(r) \/ SignUpCheckName(r)
         \/ SignUpInsert(r)
         \/ StartSignIn(r) \/ SignInFindUser(r) \/ SignInCleanupLookup(r)
         \/ SignInCleanupDelete(r) \/ SignInInsert(r)
         \/ StartSignOut(r) \/ SignOutExists(r) \/ SignOutDelete(r)
         \/ StartRefresh(r) \/ RefreshByToken(r) \/ RefreshIsExpired(r)
         \/ RefreshDefensiveDelete(r) \/ RefreshDelete(r)
         \/ RefreshCreate(r)
         \/ GithubCallback(r)

Spec == Init /\ [][Next]_vars

\* the same handlers served by one worker
SpecSeq == InitSeq /\ [][Next]_vars

\* the same handlers, one worker, over a table with a row written elsewhere
SpecForeign == InitForeign /\ [][Next]_vars

TypeOK ==
    /\ now \in Nat
    /\ \A r \in Procs : req[r].pc \in {"idle", "closed", "done", "su_email", "su_name",
          "su_insert", "si_user", "si_cleanup", "si_cleanup_delete", "si_insert",
          "so_exists", "so_delete", "rf_lookup", "rf_mismatch", "rf_expired",
          "rf_expired_delete", "rf_delete", "rf_create"}

(* ============================ properties ============================== *)
Done(r, kind) == req[r].kind = kind /\ req[r].pc = "done"
UserById(id) == CHOOSE u \in users : u.id = id

\* C1: single-use refresh tokens.  A refresh that presents a value on which
\* an earlier refresh has already succeeded fails with Unauthorized and
\* inserts no record, whatever the time between issuance, use and reuse.
C1_SingleUse ==
    \A r \in Procs :
        (Done(r, "refresh") /\ req[r].reuse)
            => (req[r].status = "Unauthorized" /\ req[r].ins = {})

\* C2: concurrent double refresh.  When two refresh requests have both found
\* the same stored record of the value they present (so their store steps
\* interleaved) and the record was not expired, exactly one succeeds, the
\* other fails with Unauthorized, and together they inserted one record.
C2_DoubleRefresh ==
    \A r, o \in Procs :
        (/\ r # o
         /\ Done(r, "refresh") /\ Done(o, "refresh")
         /\ req[r].cookie = req[o].cookie
         /\ req[r].token_record # NoRecord
         /\ req[r].token_record = req[o].token_record
         /\ req[r].rotate_count >= 0 /\ req[o].rotate_count >= 0)
            => (/\ {req[r].status, req[o].status} = {"OK", "Unauthorized"}
                /\ Cardinality(req[r].ins \cup req[o].ins) = 1)

\* C3: expiry consistency at issuance.  The record a successful sign_in or
\* refresh stores has expires_at equal to the exp claim encoded in the token
\* value it is keyed by.
C3_ExpiryConsistent ==
    \A r \in Procs :
        ((Done(r, "sign_in") \/ Done(r, "refresh")) /\ req[r].status = "OK")
            => \A x \in req[r].ins : x.expires_at = x.token.exp

\* C4: a sign_in with the email of an existing principal and a password that
\* does not verify returns Unauthorized, sets no credential and neither
\* inserts nor removes a refresh-token record, with or without a cookie.
C4_WrongPassword ==
    \A r \in Procs :
        (/\ Done(r, "sign_in")
         /\ req[r].user_id # NoUser
         /\ ~verify(req[r].password, UserById(req[r].user_id).password))
            => (/\ req[r].status = "Unauthorized"
                /\ req[r].jar = EmptyJar
                /\ req[r].new_access = NoToken /\ req[r].new_refresh = NoToken
                /\ req[r].ins = {} /\ req[r].del = {})

\* the wrong password came with a cookie whose value is in the store
C4_Witness ==
    \E r \in Procs :
        /\ Done(r, "sign_in")
        /\ req[r].user_id # NoUser
        /\ ~verify(req[r].password, UserById(req[r].user_id).password)
        /\ req[r].cookie # NoCookie /\ token_exists(req[r].cookie)
        /\ req[r].status = "Unauthorized"

\* C5: sign_up creates the principal unverified; a sign_in with the right
\* password for an unverified principal returns Unauthorized, sets no
\* credential and does not touch the store; so the sign_in that follows a
\* sign_up with the same credentials fails.
C5_UnverifiedGate ==
    /\ \A r \in Procs :
         (Done(r, "sign_up") /\ req[r].status = "OK")
            => \A u \in req[r].new_users : u \in users /\ ~u.email_verified
    /\ \A r \in Procs :
         (/\ Done(r, "sign_in")
          /\ req[r].user_id # NoUser
          /\ verify(req[r].password, UserById(req[r].user_id).password)
          /\ ~UserById(req[r].user_id).email_verified)
            => (/\ req[r].status = "Unauthorized"
                /\ req[r].jar = EmptyJar
                /\ req[r].new_access = NoToken /\ req[r].new_refresh = NoToken
                /\ req[r].ins = {} /\ req[r].del = {})
    /\ \A r, o \in Procs :
         (/\ Done(o, "sign_up") /\ req[o].status = "OK"
          /\ Done(r, "sign_in")
          /\ req[r].email = req[o].email /\ req[r].password = req[o].password
          /\ req[r].user_id = req[o].body_user)
            => req[r].status = "Unauthorized"

\* a sign_up has succeeded and the sign_in with its credentials has returned
C5_Witness ==
    \E r, o \in Procs :
        /\ Done(o, "sign_up") /\ req[o].status = "OK"
        /\ Done(r, "sign_in")
        /\ req[r].email = req[o].email /\ req[r].password = req[o].password
        /\ req[r].user_id = req[o].body_user
        /\ req[r].message = "Please verify your email address before signing in"

\* C6: sign_out returns Unauthorized and removes no record when no cookie is
\* presented and when the presented value has no record; in the second case
\* the response clears the refresh cookie.
C6_SignOutRejects ==
    \A r \in Procs :
        Done(r, "sign_out")
            => /\ (req[r].cookie = NoCookie)
                    => (/\ req[r].status = "Unauthorized"
                        /\ req[r].ins = {} /\ req[r].del = {})
               /\ (req[r].cookie # NoCookie /\ ~req[r].token_exists)
                    => (/\ req[r].status = "Unauthorized"
                        /\ req[r].ins = {} /\ req[r].del = {}
                        /\ req[r].jar.refresh_token = Cleared)

\* a sign_out presented a value that had been delivered and is gone
C6_Witness ==
    \E r \in Procs :
        /\ Done(r, "sign_out")
        /\ req[r].cookie \in handed /\ ~req[r].token_exists
        /\ req[r].status = "Unauthorized"
        /\ req[r].jar.refresh_token = Cleared

\* C7: no two rows of users share an email, and every successful sign_up has
\* created exactly one row, the one it returns, also when two sign_up
\* requests with the same email interleave.
C7_EmailUnique ==
    /\ \A u, v \in users : u.email = v.email => u = v
    /\ \A r \in Procs :
         (Done(r, "sign_up") /\ req[r].status = "OK")
            => (/\ Cardinality(req[r].new_users) = 1
                /\ req[r].new_users \subseteq users
                /\ \A u \in req[r].new_users :
                     u.email = req[r].email /\ u.id = req[r].body_user)

\* two sign_up requests with one email both passed the two existence checks;
\* one created the principal, the insert of the other was refused
C7_Witness ==
    \E r, o \in Procs :
        /\ r # o
        /\ Done(r, "sign_up") /\ Done(o, "sign_up")
        /\ req[r].email = req[o].email
        /\ req[r].status = "OK"
        /\ req[o].message = "Email or username already exists"

\* C8: a refresh whose delete of the old record affected zero rows fails
\* with Unauthorized, mints no token and inserts no record.
C8_ZeroRowsRejected ==
    \A r \in Procs :
        (Done(r, "refresh") /\ req[r].rotate_count = 0)
            => (/\ req[r].status = "Unauthorized"
                /\ req[r].new_refresh = NoToken
                /\ req[r].ins = {})

\* C9: rotation effect.  The step that completes a successful refresh of T
\* owned by P leaves the store without a record for T; the request has
\* removed T's record, inserted one record owned by P, returned an access
\* token for P and set the refresh cookie to the stored value.
C9_RotationEffect ==
    [][\A r \in Procs :
         (req[r].pc = "rf_create" /\ req'[r].pc = "done" /\ req'[r].status = "OK")
            => LET q == req'[r]
                   P == q.token_record.user_id
               IN /\ {x \in refresh_tokens' : x.token = q.cookie} = {}
                  /\ q.token_record \in q.del
                  /\ \E rec \in q.ins :
                        /\ q.ins = {rec}
                        /\ rec.user_id = P
                        /\ q.jar.refresh_token = rec.token
                  /\ q.body_access.user_id = P]_vars

\* C10: a successful sign_in for P has inserted exactly one record, keyed by
\* the minted refresh token and owned by P, and the refresh cookie of the
\* response is that stored value.
C10_SignInStores ==
    \A r \in Procs :
        (Done(r, "sign_in") /\ req[r].status = "OK")
            => /\ UserById(req[r].user_id).email = req[r].email
               /\ \E rec \in req[r].ins :
                    /\ req[r].ins = {rec}
                    /\ rec.token = req[r].new_refresh
                    /\ rec.token.user_id = req[r].user_id
                    /\ rec.user_id = req[r].user_id
                    /\ req[r].jar.refresh_token = rec.token

\* a sign_in has succeeded and its record is in the store
C10_Witness ==
    \E r \in Procs :
        /\ Done(r, "sign_in") /\ req[r].status = "OK"
        /\ req[r].ins \subseteq refresh_tokens /\ req[r].ins # {}

\* C11: when the cookie of a sign_in of principal P has a record in the store,
\* the clean-up step that precedes the insert removes every record owned by P
\* if the record found is owned by someone else, and removes the record with
\* the presented value and nothing else if it is owned by P.
C11_SignInCleanup ==
    [][\A r \in Procs :
        (req[r].pc = "si_cleanup_delete" /\ req'[r] # req[r])
            => /\ req'[r].pc = "si_insert"
               /\ refresh_tokens' =
                    IF req[r].token_record.user_id # req[r].user_id
                    THEN {x \in refresh_tokens : x.user_id # req[r].user_id}
                    ELSE {x \in refresh_tokens : x.token # req[r].cookie}
               /\ req'[r].del = refresh_tokens \ refresh_tokens']_vars

\* a sign_in that presented the cookie of another principal has removed the
\* records of its own principal, and the record of the cookie is still stored
C11_Witness ==
    \E r \in Procs :
        /\ req[r].kind = "sign_in" /\ req[r].pc = "si_insert"
        /\ req[r].token_record # NoRecord
        /\ req[r].token_record.user_id # req[r].user_id
        /\ req[r].del # {}
        /\ \A x \in req[r].del : x.user_id = req[r].user_id
        /\ req[r].token_record \in refresh_tokens

\* C12: once a sign_out presenting T has returned success, the store holds no
\* record for T, the response has cleared the refresh cookie, and every
\* refresh or sign_out that presents T afterwards ends in Unauthorized.
C12_SignOutRevokes ==
    /\ \A t \in signed_out : RowsByToken(t) = {}
    /\ \A r \in Procs :
         (Done(r, "sign_out") /\ req[r].status = "OK")
             => req[r].jar.refresh_token = Cleared
    /\ \A r \in Procs :
         (/\ req[r].kind \in {"refresh", "sign_out"}
          /\ req[r].pc = "done"
          /\ req[r].after_sign_out) => req[r].status = "Unauthorized"

\* C13: a sign_out that has attempted the deletion of the record has cleared
\* the refresh cookie in its response, whatever the deletion returned.
C13_CookieClearedAnyOutcome ==
    \A r \in Procs :
        (Done(r, "sign_out") /\ req[r].token_exists)
            => req[r].jar.refresh_token = Cleared

\* C14: two refresh requests that were rejected, for whatever cause, show the
\* caller the same response: the same status, error code and message.
C14_UniformRejection ==
    \A r, o \in Procs :
        (/\ Done(r, "refresh") /\ req[r].status = "Unauthorized"
         /\ Done(o, "refresh") /\ req[o].status = "Unauthorized")
            => into_response(req[r]) = into_response(req[o])

\* C15: a sign_in whose email matches no principal and a sign_in whose
\* password does not verify show the caller the same Unauthorized response,
\* and neither hands out a token or changes the store.
C15_NoEnumeration ==
    /\ \A r, o \in Procs :
         (/\ Done(r, "sign_in") /\ req[r].user_id = NoUser
          /\ Done(o, "sign_in") /\ req[o].user_id # NoUser
          /\ ~verify(req[o].password, UserById(req[o].user_id).password))
             => into_response(req[r]) = into_response(req[o])
    /\ \A r \in Procs :
         (/\ Done(r, "sign_in")
          /\ \/ req[r].user_id = NoUser
             \/ ~verify(req[r].password, UserById(req[r].user_id).password))
             => /\ req[r].status = "Unauthorized"
                /\ req[r].jar = EmptyJar
                /\ req[r].new_access = NoToken /\ req[r].new_refresh = NoToken
                /\ req[r].body_user = NoUser
                /\ req[r].ins = {} /\ req[r].del = {}

\* one sign_in with an email nobody has and one with alice's email and a
\* wrong password have both returned
C15_Witness ==
    \E r, o \in Procs :
        /\ Done(r, "sign_in") /\ req[r].user_id = NoUser
        /\ UsersByEmail(req[r].email) = {}
        /\ Done(o, "sign_in") /\ req[o].user_id # NoUser
        /\ ~verify(req[o].password, UserById(req[o].user_id).password)
        /\ req[r].cookie # NoCookie /\ req[o].cookie # NoCookie

\* C16: the store never holds two records with the same token value, and the
\* insert of a sign_in or of a refresh whose freshly minted value is already
\* stored ends the request with a storage error and leaves the table as it
\* was.
C16_TokenUnique ==
    /\ [](\A x, y \in refresh_tokens : x.token = y.token => x = y)
    /\ [][\A r \in Procs :
           (/\ req[r].pc \in {"si_insert", "rf_create"}
            /\ req'[r] # req[r]
            /\ RowsByToken(create_refresh_token(req[r].user_id, now)) # {})
               => /\ req'[r].pc = "done"
                  /\ req'[r].status = "DatabaseError"
                  /\ req'[r].ins = {}
                  /\ refresh_tokens' = refresh_tokens]_vars

\* a sign_in of alice in the second of her stored session has minted the
\* stored value again and was refused by the store
C16_Witness ==
    \E r \in Procs :
        /\ Done(r, "sign_in") /\ req[r].status = "DatabaseError"
        /\ req[r].new_refresh # NoToken /\ req[r].ins = {}
        /\ Cardinality(RowsByToken(req[r].new_refresh)) = 1

\* C17: a sign_up whose email is registered when the handler queries it, or
\* whose name is registered when the handler queries it, ends there with
\* Conflict and creates no principal; the name alone or the email alone is
\* enough.
C17_SignUpConflict ==
    [][\A r \in Procs :
        (/\ req'[r] # req[r]
         /\ \/ req[r].pc = "su_email" /\ UsersByEmail(req[r].email) # {}
            \/ req[r].pc = "su_name" /\ UsersByName(req[r].name) # {})
            => /\ req'[r].pc = "done"
               /\ req'[r].status = "Conflict"
               /\ req'[r].new_users = {} /\ req'[r].body_user = NoUser
               /\ users' = users]_vars

\* a sign_up with a new email and the name of alice was rejected
C17_Witness ==
    \E r \in Procs :
        /\ Done(r, "sign_up") /\ req[r].status = "Conflict"
        /\ UsersByEmail(req[r].email) = {}
        /\ UsersByName(req[r].name) # {}
        /\ req[r].new_users = {}

\* C19: a refresh that arrives without a refresh cookie, or with a cookie
\* that decode_refresh_token rejects (expired, signed with another secret, or
\* no JWT), ends on arrival with Unauthorized: it runs no statement and the
\* table stays as it is, the record of an expired token included.
C19_RejectedBeforeStore ==
    [][\A r \in Procs :
        (/\ req[r].pc \in {"idle", "done"}
         /\ req'[r] # req[r]
         /\ req'[r].kind = "refresh"
         /\ \/ req'[r].cookie = NoCookie
            \/ ~decode_refresh_token(req'[r].cookie, now).ok)
            => /\ req'[r].pc = "done"
               /\ req'[r].status = "Unauthorized"
               /\ req'[r].token_record = NoRecord
               /\ req'[r].ins = {} /\ req'[r].del = {}
               /\ refresh_tokens' = refresh_tokens]_vars

\* a refresh with a refresh token past its exp was rejected by the codec
\* and the record of the token is still stored
C19_Witness ==
    \E r \in Procs :
        /\ Done(r, "refresh") /\ req[r].status = "Unauthorized"
        /\ req[r].cookie.sig = "REFRESH_TOKEN"
        /\ req[r].user_id = NoUser
        /\ RowsByToken(req[r].cookie) # {}

\* C20: a refresh whose token was accepted by the codec and for which the
\* lookup found no record has ended with Unauthorized, has minted no token,
\* has set no cookie and has inserted no record.
C20_NoRecordRejected ==
    \A r \in Procs :
        (/\ Done(r, "refresh")
         /\ req[r].user_id # NoUser
         /\ req[r].token_record = NoRecord)
            => /\ req[r].status = "Unauthorized"
               /\ req[r].new_access = NoToken /\ req[r].new_refresh = NoToken
               /\ req[r].body_access = NoToken
               /\ req[r].jar = EmptyJar
               /\ req[r].ins = {}

\* a refresh with a token the codec accepts found no record and was rejected
C20_Witness ==
    \E r \in Procs :
        /\ Done(r, "refresh") /\ req[r].status = "Unauthorized"
        /\ req[r].user_id # NoUser
        /\ req[r].token_record = NoRecord
        /\ decode_refresh_token(req[r].cookie, now).ok
        /\ RowsByToken(req[r].cookie) = {}

\* C18: each entry point that starts a session, sign_up, sign_in and the
\* OAuth callback, has on success minted an access token and a refresh token
\* and stored a refresh-token record for its principal.
C18_EntryPointsIssue ==
    \A r \in Procs :
        (/\ req[r].pc = "done"
         /\ \/ req[r].kind \in {"sign_up", "sign_in"} /\ req[r].status = "OK"
            \/ req[r].kind = "github" /\ req[r].message = "/")
            => /\ req[r].new_access # NoToken
               /\ req[r].new_refresh # NoToken
               /\ \E x \in req[r].ins : x.token = req[r].new_refresh

\* C21: a refresh whose record is owned by another principal than the subject
\* of its token goes to the defensive delete and nowhere else; it ends with
\* Unauthorized, with no token minted, no cookie set and no record inserted,
\* and, unless the DELETE itself returned Err, with that record removed.
C21_OwnerMismatch ==
    \A r \in Procs :
        (/\ req[r].kind = "refresh"
         /\ req[r].token_record # NoRecord
         /\ req[r].token_record.user_id # req[r].user_id)
            => /\ req[r].pc \in {"rf_mismatch", "done"}
               /\ req[r].new_access = NoToken /\ req[r].new_refresh = NoToken
               /\ req[r].ins = {}
               /\ req[r].pc = "done" =>
                    /\ req[r].status = "Unauthorized"
                    /\ req[r].jar = EmptyJar /\ req[r].body_access = NoToken
                    /\ req[r].delete_failed \/ req[r].del = {req[r].token_record}

\* a refresh presented the token signed for bob whose record belongs to
\* alice; the record was removed and the request rejected
C21_Witness ==
    \E r \in Procs :
        /\ Done(r, "refresh") /\ req[r].status = "Unauthorized"
        /\ req[r].token_record # NoRecord
        /\ req[r].token_record.user_id # req[r].user_id
        /\ req[r].del = {req[r].token_record}
        /\ RowsByToken(req[r].cookie) = {}

\* C22: a refresh that passed the codec, the lookup and the owner check, and
\* whose record is in the table with expires_at before now when the handler
\* asks, takes the expired branch; that branch ends the request with
\* Unauthorized and no new pair, and removes the record unless the DELETE
\* itself returned Err.
C22_ExpiredRecord ==
    [][\A r \in Procs :
        /\ (/\ req[r].pc = "rf_expired" /\ req'[r] # req[r]
            /\ req[r].token_record \in refresh_tokens
            /\ req[r].token_record.expires_at < now)
               => req'[r].pc = "rf_expired_delete"
        /\ (req[r].pc = "rf_expired_delete" /\ req'[r] # req[r])
               => /\ req'[r].pc = "done"
                  /\ req'[r].status = "Unauthorized"
                  /\ req'[r].new_access = NoToken /\ req'[r].new_refresh = NoToken
                  /\ req'[r].body_access = NoToken /\ req'[r].jar = EmptyJar
                  /\ req'[r].ins = {}
                  /\ \/ req'[r].delete_failed /\ refresh_tokens' = refresh_tokens
                     \/ refresh_tokens' =
                          {x \in refresh_tokens : x.token # req[r].cookie}]_vars

\* a refresh found its record expired, removed it and was rejected
C22_Witness ==
    \E r \in Procs :
        /\ Done(r, "refresh") /\ req[r].status = "Unauthorized"
        /\ req[r].token_record # NoRecord
        /\ req[r].token_record.user_id = req[r].user_id
        /\ req[r].token_record.expires_at < now
        /\ req[r].del = {req[r].token_record}
        /\ ~req[r].delete_failed

\* C23: in every state that sign_in, refresh and sign_out reach, each stored
\* record holds a refresh token whose claims name the owner of the record.
C23_OwnerIsSubject ==
    \A x \in refresh_tokens :
        /\ x.token.sig = "REFRESH_TOKEN"
        /\ x.token.user_id = x.user_id

\* the table holds a record stored by a sign_in of bob and a record stored
\* by a refresh of alice
C23_Witness ==
    \E r, o \in Procs :
        /\ Done(r, "sign_in") /\ req[r].status = "OK" /\ req[r].user_id = 2
        /\ Done(o, "refresh") /\ req[o].status = "OK" /\ req[o].user_id = 1
        /\ req[r].ins \cup req[o].ins \subseteq refresh_tokens
        /\ Cardinality(refresh_tokens) = 2

\* C24: for every value a client can present, is_expired(value, now) is true
\* when the table holds no record for the value or when the record's
\* expires_at is before now, and false otherwise.
C24_IsExpiredContract ==
    \A tok \in RefreshCookieChoices \ {NoCookie} :
        is_expired(tok, now) =
            (\/ RowsByToken(tok) = {}
             \/ \E x \in RowsByToken(tok) : x.expires_at < now)

\* C25: in every reachable table and for every value a client can present,
\* delete_by_token removes the record of the value and returns 1 when there
\* is one, returns 0 and leaves the table as it is when there is none, and a
\* second application returns 0 and changes nothing more; the count a
\* refresh got from its delete is the number of rows it removed.
C25_DeleteIdempotent ==
    /\ \A tok \in RefreshCookieChoices \ {NoCookie} :
         LET once == delete_by_token(refresh_tokens, tok)
             twice == delete_by_token(once.rows, tok)
         IN /\ RowsByToken(tok) # {} =>
                 /\ once.count = 1
                 /\ once.rows = refresh_tokens \ RowsByToken(tok)
            /\ RowsByToken(tok) = {} =>
                 /\ once.count = 0
                 /\ once.rows = refresh_tokens
            /\ twice.count = 0
            /\ twice.rows = once.rows
    /\ \A r \in Procs :
         req[r].rotate_count # -1 => req[r].rotate_count = Cardinality(req[r].del)

\* two requests have deleted by the same value: one removed the record, the
\* other found none and was told 0
C25_Witness ==
    \E r, o \in Procs :
        /\ r # o /\ req[r].cookie = req[o].cookie
        /\ req[r].del # {} /\ \A x \in req[r].del : x.token = req[r].cookie
        /\ req[o].kind = "refresh" /\ req[o].rotate_count = 0

\* C26: a refresh whose clean-up delete (owner mismatch or expired record)
\* fails still ends Unauthorized with the message of the check that failed,
\* status 401, never a database or internal error, and sets no cookie.
C26_DeleteFailureSwallowed ==
    [][\A r \in Procs :
          (/\ req[r].pc \in {"rf_mismatch", "rf_expired_delete"}
           /\ req'[r] # req[r]
           /\ req'[r].delete_failed)
          => /\ req'[r].pc = "done"
             /\ req'[r].status = "Unauthorized"
             /\ status_code(req'[r].status) = 401
             /\ req'[r].message =
                  (IF req[r].pc = "rf_mismatch" THEN "Token validation failed"
                   ELSE "Refresh token has expired")
             /\ req'[r].jar = EmptyJar
             /\ req'[r].new_access = NoToken /\ req'[r].new_refresh = NoToken
             /\ refresh_tokens' = refresh_tokens]_vars

\* a refresh has answered Unauthorized after its clean-up delete failed; the
\* record it meant to remove is still stored
C26_Witness ==
    \E r \in Procs :
        /\ req[r].kind = "refresh" /\ req[r].pc = "done"
        /\ req[r].delete_failed
        /\ req[r].status = "Unauthorized"
        /\ req[r].token_record \in refresh_tokens

(* --------------------- access-token verification ---------------------- *)
\* as decode_access_token, accepting a token only while its subject has a
\* stored session
decode_access_token_NeedsSession(tok, t) ==
    IF \E x \in refresh_tokens : x.user_id = Decode("ACCESS_SECRET", tok, t).user_id
    THEN Decode("ACCESS_SECRET", tok, t)
    ELSE [ok |-> FALSE, err |-> "InvalidToken", user_id |-> NoUser]

\* decode_access_token (jwt.rs): the codec under the access secret; no
\* database connection is taken
decode_access_token(tok, t) == Decode("ACCESS_SECRET", tok, t)

\* C27: whatever the refresh_tokens table holds, verifying a delivered access
\* token succeeds with the subject it was minted for as long as the codec
\* accepts its exp, and fails as expired afterwards; rotation and sign_out of
\* the session change nothing in the result.
C27_AccessIndependentOfStore ==
    \A tok \in ({InitialAccess} \cup {req[r].new_access : r \in Procs}) \ {NoToken} :
        LET res == decode_access_token(tok, now)
        IN /\ res.ok = ~(tok.exp < now - Leeway)
           /\ res.ok => res.user_id = tok.user_id
           /\ ~res.ok => res.err = "ExpiredSignature"

\* the session the access token came with has been rotated or signed out,
\* its record is gone, and the access token still verifies
C27_Witness ==
    /\ InitialToken \in rotated \cup signed_out
    /\ RowsByToken(InitialToken) = {}
    /\ \A x \in refresh_tokens : x.user_id # InitialAccess.user_id
    /\ decode_access_token(InitialAccess, now).ok
    /\ decode_access_token(InitialAccess, now).user_id = 1

(* ------------------------- the codec alone ---------------------------- *)
\* the instants at which a token minted at second 0 is verified: at once, at
\* its exp, a second after it, at the end of the leeway and a second later
CodecInstants ==
    {0} \cup {RefreshExpires * SecondsPerHour + d : d \in {0, 1, Leeway, Leeway + 1}}

\* as InitSeq, with the clock at any of these instants
InitCodec ==
    /\ now \in CodecInstants
    /\ ticks = 0
    /\ users = InitialUsers
    /\ refresh_tokens = {InitialSession}
    /\ next_uuid = 4
    /\ req = [r \in Procs |-> IF r = "p1" THEN Idle ELSE Closed]
    /\ started = 0
    /\ handed = {InitialToken}
    /\ rotated = {}
    /\ signed_out = {}

\* decode_refresh_token as the refresh handler applies it to the cookie it
\* is given, and the clock
NextCodec ==
    \/ Tick
    \/ \E r \in Procs : StartRefresh(r)

SpecCodec == InitCodec /\ [][NextCodec]_vars

\* C28: a token verified at `now` gives back the subject it was minted for
\* when now <= exp and fails as expired when now > exp, for the refresh kind
\* (the cookie a refresh decodes) and the access kind; a token signed under
\* the other secret fails as InvalidSignature and an undecodable one as
\* InvalidToken; the refresh handler goes on exactly when the codec accepts.
C28_RoundTrip ==
    [][\A r \in Procs :
          (/\ req[r].pc \in {"idle", "done"}
           /\ req'[r].kind = "refresh"
           /\ req'[r] # req[r]
           /\ req'[r].cookie # NoCookie)
          => LET c == req'[r].cookie
                 res == decode_refresh_token(c, now)
                 acc == decode_access_token(InitialAccess, now)
             IN /\ (req'[r].pc = "rf_lookup") = res.ok
                /\ c = Garbage => res.err = "InvalidToken"
                /\ c = InitialAccess => res.err = "InvalidSignature"
                /\ (c \in handed /\ now <= c.exp) =>
                       res.ok /\ res.user_id = c.user_id
                /\ (c \in handed /\ now > c.exp) =>
                       ~res.ok /\ res.err = "ExpiredSignature"
                /\ now <= InitialAccess.exp => acc.ok /\ acc.user_id = 1
                /\ now > InitialAccess.exp =>
                       ~acc.ok /\ acc.err = "ExpiredSignature"]_vars

(* ------------------- two requests, two principals --------------------- *)
\* alice and bob have each signed in at second 0; a second has passed
BobToken == create_refresh_token(2, 0)
BobSession == NewRefreshToken(4, BobToken, 2, 0)

InitPair ==
    /\ now = 1
    /\ ticks = 0
    /\ users = InitialUsers
    /\ refresh_tokens = {InitialSession, BobSession}
    /\ next_uuid = 5
    /\ req = [r \in Procs |-> Idle]
    /\ started = 0
    /\ handed = {InitialToken, BobToken}
    /\ rotated = {}
    /\ signed_out = {}

\* the steps of sign_in, refresh and sign_out while the clock stands still
NextPair ==
    \E r \in Procs :
        \/ StartSignIn(r)
        \/ SignInFindUser(r)
        \/ SignInCleanupLookup(r)
        \/ SignInCleanupDelete(r)
        \/ SignInInsert(r)
        \/ StartSignOut(r)
        \/ SignOutExists(r)
        \/ SignOutDelete(r)
        \/ StartRefresh(r)
        \/ RefreshByToken(r)
        \/ RefreshIsExpired(r)
        \/ RefreshDelete(r)
        \/ RefreshCreate(r)

SpecPair == InitPair /\ [][NextPair]_vars

\* what the caller sees of a request
Response(q) ==
    [status |-> q.status, message |-> q.message, jar |-> q.jar,
     body_access |-> q.body_access, body_user |-> q.body_user]

Answer(status, message, jar, body_access, body_user) ==
    [status |-> status, message |-> message, jar |-> jar,
     body_access |-> body_access, body_user |-> body_user]

\* a table with the ids of the rows left out: Uuid::new_v4 gives a row a
\* fresh id whatever the order of the inserts
WithoutIds(rows) == {[x EXCEPT !.id = 0] : x \in rows}

\* sign_in run from its first statement to its last on the table `rows`
sign_in(q, rows) ==
    LET found == UsersByEmail(q.email)
        u == FirstUser(found)
        existing == {x \in rows : x.token = q.cookie}
        cleaned == IF q.cookie = NoCookie \/ existing = {} THEN rows
                   ELSE IF (CHOOSE x \in existing : TRUE).user_id # u.id
                   THEN {x \in rows : x.user_id # u.id}
                   ELSE rows \ existing
        access == create_access_token(u.id, now)
        refresh_token == create_refresh_token(u.id, now)
    IN IF found = {} \/ ~verify(q.password, u.password)
       THEN [rows |-> rows,
             res |-> Answer("Unauthorized", "Invalid email or password",
                            EmptyJar, NoToken, NoUser)]
       ELSE IF ~u.email_verified
       THEN [rows |-> rows,
             res |-> Answer("Unauthorized",
                            "Please verify your email address before signing in",
                            EmptyJar, NoToken, NoUser)]
       ELSE IF \E x \in cleaned : x.token = refresh_token
       THEN [rows |-> cleaned,
             res |-> Answer("DatabaseError", "Failed to create user session",
                            EmptyJar, NoToken, NoUser)]
       ELSE [rows |-> cleaned \cup {NewRefreshToken(0, refresh_token, u.id, now)},
             res |-> Answer("OK", "Successfully signed in",
                            set_auth_cookies(EmptyJar, access, refresh_token),
                            NoToken, u.id)]

\* refresh run from its first statement to its last on the table `rows`
refresh(q, rows) ==
    LET d == decode_refresh_token(q.cookie, now)
        existing == {x \in rows : x.token = q.cookie}
        removed == delete_by_token(rows, q.cookie).rows
        access == create_access_token(d.user_id, now)
        refresh_token == create_refresh_token(d.user_id, now)
        Refused(left, message) ==
            [rows |-> left,
             res |-> Answer("Unauthorized", message, EmptyJar, NoToken, NoUser)]
    IN IF q.cookie = NoCookie THEN Refused(rows, "No refresh token provided")
       ELSE IF ~d.ok THEN Refused(rows, "Invalid or malformed refresh token")
       ELSE IF existing = {} THEN Refused(rows, "Invalid refresh token")
       ELSE IF (CHOOSE x \in existing : TRUE).user_id # d.user_id
       THEN Refused(removed, "Token validation failed")
       ELSE IF \E x \in existing : x.expires_at < now
       THEN Refused(removed, "Refresh token has expired")
       ELSE IF \E x \in removed : x.token = refresh_token
       THEN [rows |-> removed,
             res |-> Answer("DatabaseError", "Failed to store new refresh token",
                            EmptyJar, NoToken, NoUser)]
       ELSE [rows |-> removed \cup {NewRefreshToken(0, refresh_token, d.user_id, now)},
             res |-> Answer("OK", "Tokens refreshed successfully",
                            set_refresh_token_cookie(EmptyJar, refresh_token),
                            access, NoUser)]

\* sign_out run from its first statement to its last on the table `rows`
sign_out(q, rows) ==
    IF q.cookie = NoCookie
    THEN [rows |-> rows,
          res |-> Answer("Unauthorized", "No active session found",
                         EmptyJar, NoToken, NoUser)]
    ELSE IF {x \in rows : x.token = q.cookie} = {}
    THEN [rows |-> rows,
          res |-> Answer("Unauthorized", "Invalid or expired session",
                         remove_refresh_token_cookie(EmptyJar), NoToken, NoUser)]
    ELSE [rows |-> delete_by_token(rows, q.cookie).rows,
          res |-> Answer("OK", "Successfully signed out",
                         remove_refresh_token_cookie(EmptyJar), NoToken, NoUser)]

\* the handler of a request, by its kind
Handle(q, rows) ==
    CASE q.kind = "sign_in" -> sign_in(q, rows)
      [] q.kind = "refresh" -> refresh(q, rows)
      [] OTHER -> sign_out(q, rows)

\* the principal a request is for: the account of the email for sign_in, the
\* subject of the presented token for refresh and sign_out
Principal(q) ==
    IF q.kind = "sign_in"
    THEN (IF UsersByEmail(q.email) = {} THEN NoUser
          ELSE FirstUser(UsersByEmail(q.email)).id)
    ELSE IF IsJwt(q.cookie) THEN q.cookie.user_id ELSE NoUser

\* C29 as stated: two finished requests for different principals presenting
\* different token values (values their clients held before either began)
\* have the responses, and leave the table, that running one and then the
\* other gives, in either order.
C29_IndependentAsStated ==
    LET a == req["p1"]
        b == req["p2"]
        S0 == {InitialSession, BobSession}
        Held == {NoCookie, Garbage, InitialAccess, InitialToken, BobToken}
        ab == Handle(b, Handle(a, S0).rows)
        ba == Handle(a, Handle(b, S0).rows)
    IN (/\ started = 2 /\ a.pc = "done" /\ b.pc = "done"
        /\ ~a.delete_failed /\ ~b.delete_failed
        /\ Principal(a) # Principal(b)
        /\ a.cookie \in Held /\ b.cookie \in Held
        /\ a.cookie # b.cookie \/ a.cookie = NoCookie)
       => /\ Response(a) = Handle(a, S0).res /\ Response(a) = ba.res
          /\ Response(b) = Handle(b, S0).res /\ Response(b) = ab.res
          /\ WithoutIds(refresh_tokens) = WithoutIds(ab.rows)
          /\ WithoutIds(refresh_tokens) = WithoutIds(ba.rows)

\* C29: two finished requests for different principals presenting different
\* token values, neither of them a token issued to the principal of the
\* other, have the responses, and leave the table, that running one and then
\* the other gives, in either order.
C29_Independent ==
    LET a == req["p1"]
        b == req["p2"]
        S0 == {InitialSession, BobSession}
        ab == Handle(b, Handle(a, S0).rows)
        ba == Handle(a, Handle(b, S0).rows)
    IN (/\ started = 2 /\ a.pc = "done" /\ b.pc = "done"
        /\ ~a.delete_failed /\ ~b.delete_failed
        /\ Principal(a) # Principal(b)
        /\ a.cookie # b.cookie \/ a.cookie = NoCookie
        /\ ~(IsJwt(a.cookie) /\ a.cookie.user_id = Principal(b))
        /\ ~(IsJwt(b.cookie) /\ b.cookie.user_id = Principal(a)))
       => /\ Response(a) = Handle(a, S0).res /\ Response(a) = ba.res
          /\ Response(b) = Handle(b, S0).res /\ Response(b) = ab.res
          /\ WithoutIds(refresh_tokens) = WithoutIds(ab.rows)
          /\ WithoutIds(refresh_tokens) = WithoutIds(ba.rows)

\* alice's refresh and bob's sign_in with his old cookie have both succeeded,
\* each has replaced the record of its own principal, and the sign_in wrote
\* its record before the rotation wrote its own
C29_Witness ==
    \E r, o \in Procs :
        /\ started = 2
        /\ Done(r, "refresh") /\ req[r].status = "OK" /\ req[r].cookie = InitialToken
        /\ Done(o, "sign_in") /\ req[o].status = "OK" /\ req[o].cookie = BobToken
        /\ req[o].del = {BobSession} /\ req[r].del = {InitialSession}
        /\ \E x \in req[r].ins, y \in req[o].ins : y.id < x.id

\* C30: a request holds a connection only between its acquisition and its
\* return: every sign_in, refresh or sign_out that has returned, with
\* success or with any error, holds none, a request that has reached a
\* statement holds one, and when every started request has returned no
\* connection of the pool is in use.
C30_ConnectionReleased ==
    /\ \A r \in Procs :
         /\ req[r].pc \in {"idle", "done", "closed"} => ~req[r].conn
         /\ (req[r].kind \in {"sign_in", "refresh", "sign_out"}
             /\ req[r].pc \notin {"idle", "done", "closed"}) => req[r].conn
    /\ (\A r \in Procs : req[r].pc \in {"idle", "done", "closed"})
         => Cardinality({r \in Procs : req[r].conn}) = 0

\* two requests that had each taken a connection have returned, one with
\* success and one with an error of a later statement, and none is in use
C30_Witness ==
    \E r, o \in Procs :
        /\ r # o
        /\ req[r].pc = "done" /\ req[r].kind \in {"sign_in", "refresh", "sign_out"}
        /\ req[r].status = "OK"
        /\ req[o].pc = "done" /\ req[o].kind \in {"sign_in", "refresh", "sign_out"}
        /\ req[o].message \in {"Invalid refresh token", "Invalid or expired session",
                               "Invalid email or password",
                               "Failed to create user session",
                               "Failed to invalidate session"}
        /\ Cardinality({p \in Procs : req[p].conn}) = 0

\* C31: a callback in which handle_github_oauth returned an error, of
\* whatever kind, answers with the redirect to /login?error=oauth_failed and
\* sets no cookie; only a callback without an error sets auth_token.
C31_OAuthFailureRedirect ==
    \A r \in Procs :
        Done(r, "github") =>
            /\ req[r].status = "SeeOther"
            /\ req[r].oauth_error # "None" =>
                 /\ req[r].message = "/login?error=oauth_failed"
                 /\ req[r].jar = EmptyJar
            /\ req[r].oauth_error = "None" =>
                 /\ req[r].message = "/"
                 /\ req[r].jar.auth_token = create_jwt(req[r].name, req[r].jar.auth_token.iat)

\* two callbacks have failed at different steps and were sent to the same
\* location
C31_Witness ==
    \E r, o \in Procs :
        /\ Done(r, "github") /\ Done(o, "github")
        /\ req[r].oauth_error = "NetworkError"
        /\ req[o].oauth_error = "JwtCreationError"
        /\ req[r].message = req[o].message
        /\ req[r].jar = EmptyJar /\ req[o].jar = EmptyJar

\* C32: of a sign_out and a refresh that present the same token value, at
\* most one succeeds: a successful sign_out of T never stands beside a
\* successful refresh of T (one that minted a value other than T).
C32_SignOutRefreshRace ==
    \A r, o \in Procs :
        (/\ Done(r, "sign_out") /\ Done(o, "refresh")
         /\ req[r].cookie = req[o].cookie
         /\ req[o].new_refresh # req[o].cookie)
        => ~(req[r].status = "OK" /\ req[o].status = "OK")

\* C33: when a refresh has deleted the record of the presented token and the
\* insert of the new record then fails, the request ends with a database
\* error, has written no record and replaced no cookie, the table is left as
\* the delete left it, and it holds no record of the presented value any
\* more, so that the value cannot be refreshed again.
C33_RefreshNotAtomic ==
    [][\A r \in Procs :
          (/\ req[r].pc = "rf_create" /\ req[r].rotate_count = 1
           /\ req'[r].pc = "done" /\ req'[r].status # "OK")
          => /\ req'[r].status = "DatabaseError"
             /\ status_code(req'[r].status) = 500
             /\ req'[r].ins = {} /\ req'[r].del # {}
             /\ req'[r].jar = EmptyJar
             /\ refresh_tokens' = refresh_tokens
             /\ \A x \in refresh_tokens' : x.token # req[r].cookie]_vars

\* C34: no step of a refresh presenting T removes or changes a record whose
\* token is not T; a step adds a record only when the refresh succeeds, and
\* then the one record of the new token, owned by the subject; the users
\* table is left alone.
C34_RefreshFrame ==
    [][\A r \in Procs :
          (req'[r] # req[r] /\ req'[r].kind = "refresh")
          => LET T == req'[r].cookie
                 added == refresh_tokens' \ refresh_tokens
             IN /\ \A x \in refresh_tokens : x.token # T => x \in refresh_tokens'
                /\ Cardinality(added) <= 1
                /\ added # {} =>
                     /\ req'[r].pc = "done" /\ req'[r].status = "OK"
                     /\ added = req'[r].ins
                     /\ \A x \in added : /\ x.token = req'[r].new_refresh
                                         /\ x.user_id = req'[r].user_id
                /\ users' = users]_vars

\* a refresh has succeeded, removing the record of T and adding one, while
\* its principal had another, older session, which is still stored
C34_Witness ==
    \E r \in Procs :
        /\ Done(r, "refresh") /\ req[r].status = "OK"
        /\ req[r].del # {} /\ req[r].ins # {}
        /\ \E x \in refresh_tokens :
             /\ x.user_id = req[r].user_id
             /\ x.token \notin {req[r].cookie, req[r].new_refresh}
             /\ x.created_at < now

\* C35: no step of a sign_out presenting T adds a record or removes one whose
\* token is not T, and none touches the users table.
C35_SignOutFrame ==
    [][\A r \in Procs :
          (req'[r] # req[r] /\ req'[r].kind = "sign_out")
          => /\ refresh_tokens' \subseteq refresh_tokens
             /\ \A x \in refresh_tokens \ refresh_tokens' : x.token = req'[r].cookie
             /\ Cardinality(refresh_tokens \ refresh_tokens') <= 1
             /\ users' = users]_vars

\* a sign_out has removed the record of T while its principal had another
\* session, which is still stored
C35_Witness ==
    \E r \in Procs :
        /\ Done(r, "sign_out") /\ req[r].status = "OK"
        /\ req[r].del # {}
        /\ \A x \in req[r].del : x.token = req[r].cookie
        /\ \E x \in refresh_tokens, y \in req[r].del :
             x.user_id = y.user_id /\ x.token # req[r].cookie

\* C36: once a sign_in of P has found the record of its cookie owned by
\* another principal Q, no step of it removes or changes a record that is
\* not P's: the records of Q, the presented one among them, stay as they
\* are, and what it removes and adds is owned by P.
C36_ForeignCookieFrame ==
    [][\A r \in Procs :
          (/\ req[r].kind = "sign_in" /\ req'[r] # req[r]
           /\ req[r].pc \in {"si_cleanup_delete", "si_insert"}
           /\ req[r].token_record # NoRecord
           /\ req[r].token_record.user_id # req[r].user_id)
          => /\ \A x \in refresh_tokens :
                  x.user_id # req[r].user_id => x \in refresh_tokens'
             /\ \A x \in refresh_tokens \ refresh_tokens' : x.user_id = req[r].user_id
             /\ \A x \in refresh_tokens' \ refresh_tokens : x.user_id = req[r].user_id
             /\ req[r].token_record \in refresh_tokens
                  => req[r].token_record \in refresh_tokens']_vars

\* a sign_in of P that presented the cookie of Q has returned: the sessions
\* P had are gone, P has its new one, and the record of the cookie is stored
\* as it was
C36_Witness ==
    \E r \in Procs :
        /\ Done(r, "sign_in") /\ req[r].status = "OK"
        /\ req[r].token_record # NoRecord
        /\ req[r].token_record.user_id # req[r].user_id
        /\ req[r].token_record.token = req[r].cookie
        /\ req[r].del # {}
        /\ \A x \in req[r].del : x.user_id = req[r].user_id
        /\ req[r].token_record \in refresh_tokens
        /\ req[r].ins \subseteq refresh_tokens

\* C37: a refresh that presents the credential of the latest successful
\* sign_in or refresh, untouched by any other request, while the record of
\* that credential is stored and its expires_at is still ahead, succeeds.
C37_SessionContinuity ==
    \A r \in Procs :
        (/\ Done(r, "refresh")
         /\ req[r].cookie \in handed
         /\ ~req[r].reuse /\ ~req[r].after_sign_out /\ ~req[r].delete_failed
         /\ \E x \in refresh_tokens :
              /\ x.token = req[r].cookie
              /\ x.user_id = req[r].cookie.user_id
              /\ now < x.expires_at)
        => req[r].status = "OK"

\* C38: a refresh that presents a token minted as an access token ends at the
\* verification of the cookie: Unauthorized (401), no statement on the
\* store, no record written or removed, no cookie set.
C38_KindSeparation ==
    [][\A r \in Procs :
          (/\ req'[r] # req[r] /\ req'[r].kind = "refresh"
           /\ req'[r].cookie.sig = "ACCESS_SECRET")
          => /\ req'[r].pc = "done"
             /\ req'[r].status = "Unauthorized"
             /\ status_code(req'[r].status) = 401
             /\ ~req'[r].conn
             /\ req'[r].ins = {} /\ req'[r].del = {}
             /\ req'[r].jar = EmptyJar
             /\ refresh_tokens' = refresh_tokens
             /\ users' = users]_vars

\* the access token of a stored session, still valid as an access token, was
\* presented to refresh and refused
C38_Witness ==
    \E r \in Procs :
        /\ Done(r, "refresh") /\ req[r].cookie = InitialAccess
        /\ req[r].status = "Unauthorized"
        /\ decode_access_token(InitialAccess, now).ok
        /\ decode_refresh_token(InitialAccess, now).err = "InvalidSignature"
        /\ InitialSession \in refresh_tokens

====
